---- MODULE Spec2Model ----
(***************************************************************************)
(* A model of jrnlb's streaming decoder for the journald export format     *)
(* (src/parser.rs): the nom field parsers, JournalMessage's accessors, the *)
(* Filter, and JournalBackupReader (read, should_filter, Iterator::next).  *)
(*                                                                         *)
(* Bytes are the integers 0..255.  A byte string is a sequence of bytes.   *)
(***************************************************************************)
EXTENDS Integers, Sequences, FiniteSets, TLC

\* parser.rs:19-20
EQUALS == 61
NEWLINE == 10

Min(a, b) == IF a <= b THEN a ELSE b
Take(s, n) == SubSeq(s, 1, Min(n, Len(s)))
Drop(s, n) == SubSeq(s, n + 1, Len(s))

(***************************************************************************)
(* nom's IResult<&[u8], O>: Ok((rest, out)), Err(Incomplete(Needed::Size)) *)
(* or Err(Error((input, kind))).  One record shape for the three.          *)
(***************************************************************************)
Ok(rest, out) == [tag |-> "Ok", rest |-> rest, out |-> out, needed |-> 0, kind |-> ""]
Incomplete(n) == [tag |-> "Incomplete", rest |-> <<>>, out |-> <<>>, needed |-> n, kind |-> ""]
Error(input, kind) == [tag |-> "Error", rest |-> input, out |-> <<>>, needed |-> 0, kind |-> kind]

\* Option<T>
None == [some |-> FALSE, v |-> <<>>]
Some(x) == [some |-> TRUE, v |-> x]

\* The index of the first byte of s that lies in the set stop, 0 when there is none.
Position(s, stop) ==
    IF \E i \in 1..Len(s) : s[i] \in stop
    THEN CHOOSE i \in 1..Len(s) : s[i] \in stop /\ \A j \in 1..(i - 1) : s[j] \notin stop
    ELSE 0

\* nom::bytes::streaming::tag(t)(s): a mismatch within the common prefix is an
\* Error, a too-short input is Incomplete(Size(len t)).
tag(t, s) ==
    LET m == Min(Len(s), Len(t))
    IN  IF Take(s, m) # Take(t, m) THEN Error(s, "Tag")
        ELSE IF Len(s) < Len(t) THEN Incomplete(Len(t))
        ELSE Ok(Drop(s, Len(t)), t)

\* (mutant) an empty run is accepted, like take_while
take_while1_or_none(stop, s) ==
    LET p == Position(s, stop)
    IN  IF p = 0 THEN Incomplete(1) ELSE Ok(Drop(s, p - 1), Take(s, p - 1))

\* nom::bytes::streaming::take_while1(|c| c \notin stop)(s)
take_while1(stop, s) ==
    LET p == Position(s, stop)
    IN  IF p = 0 THEN Incomplete(1)
        ELSE IF p = 1 THEN Error(s, "TakeWhile1")
        ELSE Ok(Drop(s, p - 1), Take(s, p - 1))

\* nom::combinator::opt(f): an Error of f becomes Ok(None) on the same input,
\* Incomplete is passed on.
opt(r, input) ==
    IF r.tag = "Ok" THEN Ok(r.rest, Some(r.out))
    ELSE IF r.tag = "Error" THEN Ok(input, None)
    ELSE r

\* The largest length the model's integers hold (2^31 - 1): a u64 that does not fit
\* is read as this one; it exceeds the length of every buffer, as the real one does.
LengthCap == 255 + 256 * 255 + 65536 * 255 + 16777216 * 127

\* (mutant) only the low seven bits of the length are read
le_u64_low_bits(s) ==
    IF Len(s) < 8 THEN Incomplete(8) ELSE Ok(Drop(s, 8), s[1] % 128)

\* nom::number::streaming::le_u64
le_u64(s) ==
    IF Len(s) < 8 THEN Incomplete(8)
    ELSE LET fits == s[4] < 128 /\ \A i \in 5..8 : s[i] = 0
             u == IF fits THEN s[1] + 256 * s[2] + 65536 * s[3] + 16777216 * s[4]
                  ELSE LengthCap
         IN  Ok(Drop(s, 8), u)

\* (mutant) the count reported is the number of bytes still missing
take_reports_missing(count, s) ==
    IF Len(s) < count THEN Incomplete(count - Len(s))
    ELSE Ok(Drop(s, count), Take(s, count))

\* nom::bytes::streaming::take(count)
take(count, s) ==
    IF Len(s) < count THEN Incomplete(count)
    ELSE Ok(Drop(s, count), Take(s, count))

\* (mutant) a name that runs to the end of the input is taken as complete
parse_key_complete(s) ==
    IF s # <<>> /\ Position(s, {EQUALS, NEWLINE}) = 0 THEN Ok(<<>>, s)
    ELSE take_while1({EQUALS, NEWLINE}, s)

\* parser.rs:22-24
parse_key(s) == take_while1({EQUALS, NEWLINE}, s)

\* (mutant) the payload is read up to the next newline, not by its length
parse_value_binary_int_line(s) ==
    LET r == le_u64(s)
        p == Position(r.rest, {NEWLINE})
    IN  IF r.tag # "Ok" THEN r
        ELSE IF p = 0 THEN Incomplete(1)
        ELSE Ok(Drop(r.rest, p - 1), Take(r.rest, p - 1))

\* parser.rs:52-55
parse_value_binary_int(s) ==
    LET r == le_u64(s)
    IN  IF r.tag # "Ok" THEN r ELSE take(r.out, r.rest)

\* parser.rs:48-51
parse_value_binary(s) ==
    LET r1 == tag(<<NEWLINE>>, s)
    IN  IF r1.tag # "Ok" THEN r1
        ELSE LET r2 == parse_value_binary_int(r1.rest)
             IN  IF r2.tag # "Ok" THEN r2
                 ELSE LET r3 == tag(<<NEWLINE>>, r2.rest)
                      IN  IF r3.tag # "Ok" THEN r3 ELSE Ok(r3.rest, r2.out)

\* (mutant) the terminating newline is kept in the value
parse_value_string_keeps_newline(s) ==
    LET r1 == tag(<<EQUALS>>, s)
    IN  IF r1.tag # "Ok" THEN r1
        ELSE LET r2 == opt(take_while1({NEWLINE}, r1.rest), r1.rest)
             IN  IF r2.tag # "Ok" THEN r2
                 ELSE LET r3 == tag(<<NEWLINE>>, r2.rest)
                      IN  IF r3.tag # "Ok" THEN r3
                          ELSE Ok(r3.rest, (IF r2.out.some THEN r2.out.v ELSE <<>>) \o <<NEWLINE>>)

\* parser.rs:56-63
parse_value_string(s) ==
    LET r1 == tag(<<EQUALS>>, s)
    IN  IF r1.tag # "Ok" THEN r1
        ELSE LET r2 == opt(take_while1({NEWLINE}, r1.rest), r1.rest)
             IN  IF r2.tag # "Ok" THEN r2
                 ELSE LET r3 == tag(<<NEWLINE>>, r2.rest)
                      IN  IF r3.tag # "Ok" THEN r3
                          ELSE Ok(r3.rest, IF r2.out.some THEN r2.out.v ELSE <<>>)

\* s[0] of an empty slice: an index out of bounds
Panic == [tag |-> "Panic", rest |-> <<>>, out |-> <<>>, needed |-> 0, kind |-> ""]

\* parser.rs:40-47
parse_value(s) ==
    IF Len(s) = 0 THEN Panic
    ELSE IF s[1] = EQUALS THEN parse_value_string(s)
    ELSE IF s[1] = NEWLINE THEN parse_value_binary(s)
    ELSE Error(<<>>, "Tag")

\* parser.rs:95-97: nom::sequence::pair(parse_key, parse_value); out is the KVP <<key, value>>
parse_key_value(s) ==
    LET r1 == parse_key(s)
    IN  IF r1.tag # "Ok" THEN r1
        ELSE LET r2 == parse_value(r1.rest)
             IN  IF r2.tag # "Ok" THEN r2 ELSE Ok(r2.rest, <<r1.out, r2.out>>)

\* (mutant) a run of newlines is taken as one terminator
parse_end_of_msg_run(s) ==
    LET r == tag(<<NEWLINE>>, s)
    IN  IF r.tag = "Ok"
        THEN Ok(Drop(s, IF Len(s) >= 2 /\ s[2] = NEWLINE THEN 2 ELSE 1), None)
        ELSE IF ~(r.tag = "Error" /\ r.kind = "Tag") THEN r
        ELSE LET kv == parse_key_value(s)
             IN  IF kv.tag = "Ok" THEN Ok(kv.rest, Some(kv.out)) ELSE kv

\* parser.rs:117-140: out is Option<KVP>
parse_end_of_msg(s) ==
    LET r == tag(<<NEWLINE>>, s)
    IN  IF r.tag = "Ok" THEN Ok(Drop(s, 1), None)
        ELSE IF ~(r.tag = "Error" /\ r.kind = "Tag") THEN r
        ELSE LET kv == parse_key_value(s)
             IN  IF kv.tag = "Ok" THEN Ok(kv.rest, Some(kv.out)) ELSE kv

(***************************************************************************)
(* JournalMessage (parser.rs:157-323).  msg is the field list `fields`, a  *)
(* sequence of pairs <<name, value>>.  A String is a byte string that is   *)
(* valid UTF-8.  A lookup answers [panic, some, v]: it panics, or it       *)
(* returns Option<String>.                                                 *)
(***************************************************************************)
\* std::str::from_utf8(v).is_ok()
RECURSIVE IsUtf8(_)
IsUtf8(v) ==
    IF v = <<>> THEN TRUE
    ELSE LET b == v[1]
             n == Len(v)
             Cont(i) == i <= n /\ v[i] \in 128..191
         IN  IF b < 128 THEN IsUtf8(Drop(v, 1))
             ELSE IF b \in 194..223 THEN Cont(2) /\ IsUtf8(Drop(v, 2))
             ELSE IF b = 224 THEN n >= 2 /\ v[2] \in 160..191 /\ Cont(3) /\ IsUtf8(Drop(v, 3))
             ELSE IF b \in (225..236) \cup {238, 239} THEN Cont(2) /\ Cont(3) /\ IsUtf8(Drop(v, 3))
             ELSE IF b = 237 THEN n >= 2 /\ v[2] \in 128..159 /\ Cont(3) /\ IsUtf8(Drop(v, 3))
             ELSE IF b = 240 THEN n >= 2 /\ v[2] \in 144..191 /\ Cont(3) /\ Cont(4) /\ IsUtf8(Drop(v, 4))
             ELSE IF b \in 241..243 THEN Cont(2) /\ Cont(3) /\ Cont(4) /\ IsUtf8(Drop(v, 4))
             ELSE IF b = 244 THEN n >= 2 /\ v[2] \in 128..143 /\ Cont(3) /\ Cont(4) /\ IsUtf8(Drop(v, 4))
             ELSE FALSE

Found(s) == [panic |-> FALSE, some |-> TRUE, v |-> s]
Absent == [panic |-> FALSE, some |-> FALSE, v |-> <<>>]
Unwound == [panic |-> TRUE, some |-> FALSE, v |-> <<>>]

\* parser.rs:314-322: the first field named key; from_utf8(..).unwrap() panics
\* on a value that is not UTF-8.
field(msg, key) ==
    LET i == IF \E j \in 1..Len(msg) : msg[j][1] = key
             THEN CHOOSE j \in 1..Len(msg) : msg[j][1] = key /\ \A h \in 1..(j - 1) : msg[h][1] # key
             ELSE 0
    IN  IF i = 0 THEN Absent
        ELSE IF IsUtf8(msg[i][2]) THEN Found(msg[i][2])
        ELSE Unwound

\* Option<String>::unwrap_or_else(|| "".to_owned())
unwrap_or_empty(o) == IF o.panic THEN o ELSE Found(IF o.some THEN o.v ELSE <<>>)

\* The well-known field names, as bytes.
KEY_MESSAGE == <<77, 69, 83, 83, 65, 71, 69>>
KEY_SYSLOG_RAW == <<83, 89, 83, 76, 79, 71, 95, 82, 65, 87>>
KEY_SYSTEMD_UNIT == <<95, 83, 89, 83, 84, 69, 77, 68, 95, 85, 78, 73, 84>>
KEY_SOURCE_REALTIME_TIMESTAMP ==
    <<95, 83, 79, 85, 82, 67, 69, 95, 82, 69, 65, 76, 84, 73, 77, 69, 95, 84, 73, 77, 69, 83, 84, 65, 77, 80>>
KEY_REALTIME_TIMESTAMP ==
    <<95, 95, 82, 69, 65, 76, 84, 73, 77, 69, 95, 84, 73, 77, 69, 83, 84, 65, 77, 80>>

\* (mutant) SYSLOG_RAW also stands in for a MESSAGE that is absent
message_raw_when_absent(msg) ==
    LET m == field(msg, KEY_MESSAGE)
    IN  IF m.panic THEN m
        ELSE IF ~m.some \/ m.v = <<>> THEN field(msg, KEY_SYSLOG_RAW)
        ELSE m

\* parser.rs:190-205
message(msg) ==
    LET m == field(msg, KEY_MESSAGE)
    IN  IF m.panic \/ ~m.some THEN m
        ELSE IF m.v = <<>> THEN field(msg, KEY_SYSLOG_RAW)
        ELSE m

\* parser.rs:259-262
systemd_unit(msg) == unwrap_or_empty(field(msg, KEY_SYSTEMD_UNIT))

\* ASCII '+' and '-', '0'..'9'
SIGNS == {43, 45}
DIGITS == 48..57

RECURSIVE DigitsValue(_)
DigitsValue(d) == IF d = <<>> THEN 0 ELSE 10 * DigitsValue(Take(d, Len(d) - 1)) + (d[Len(d)] - 48)

\* str::parse::<i64>(): an optional sign, then one or more decimal digits.
\* [ok, n].  (The model's numerals stay below 2^31, far from i64's overflow.)
parse_i64(s) ==
    LET signed == s # <<>> /\ s[1] \in SIGNS
        d == IF signed THEN Drop(s, 1) ELSE s
    IN  IF d = <<>> \/ \E i \in 1..Len(d) : d[i] \notin DIGITS THEN [ok |-> FALSE, n |-> 0]
        ELSE [ok |-> TRUE, n |-> IF signed /\ s[1] = 45 THEN 0 - DigitsValue(d) ELSE DigitsValue(d)]

\* Rust's integer division truncates toward zero.
TruncDiv(a, b) == IF a >= 0 THEN a \div b ELSE 0 - ((0 - a) \div b)

\* parser.rs:305-306
MICROS_PER_SEC == 1000000

\* An instant (DateTime) is <<seconds since the epoch, nanoseconds within the second>>.
Before(t, u) == t[1] < u[1] \/ (t[1] = u[1] /\ t[2] < u[2])

\* (mutant) a field that does not parse is passed over for the other field
date_time_falls_back(msg) ==
    LET f1 == field(msg, KEY_SOURCE_REALTIME_TIMESTAMP)
        s == IF f1.panic \/ (f1.some /\ parse_i64(f1.v).ok) THEN f1
             ELSE field(msg, KEY_REALTIME_TIMESTAMP)
    IN  IF s.panic \/ ~s.some THEN s
        ELSE LET p == parse_i64(s.v)
                 micros == p.n
                 secs == TruncDiv(micros, MICROS_PER_SEC)
                 nanos == micros - secs * MICROS_PER_SEC
             IN  IF ~p.ok THEN Absent
                 ELSE IF nanos < 0 THEN Unwound
                 ELSE Found(<<secs, nanos>>)

\* parser.rs:284-312.  NaiveDateTime::from_timestamp(secs, nanos as u32) panics
\* when the u32 is 2*10^9 or more; `as u32` turns a negative remainder r into
\* 2^32 + r, which is above that limit for every r in -999999..-1.
date_time(msg) ==
    LET f1 == field(msg, KEY_SOURCE_REALTIME_TIMESTAMP)
        s == IF f1.panic \/ f1.some THEN f1 ELSE field(msg, KEY_REALTIME_TIMESTAMP)
    IN  IF s.panic \/ ~s.some THEN s
        ELSE LET p == parse_i64(s.v)
                 micros == p.n
                 secs == TruncDiv(micros, MICROS_PER_SEC)
                 nanos == micros - secs * MICROS_PER_SEC
             IN  IF ~p.ok THEN Absent
                 ELSE IF nanos < 0 THEN Unwound
                 ELSE Found(<<secs, nanos>>)

(***************************************************************************)
(* Filter (parser.rs:357-392): [unit, since, until, lines], each an        *)
(* Option.  since and until are instants.                                  *)
(***************************************************************************)
\* (mutant) the unit criterion accepts every unit that starts with the configured string
should_filter_unit_prefix(filter, msg) ==
    IF ~filter.some THEN [panic |-> FALSE, value |-> FALSE]
    ELSE LET f == filter.v
             u == systemd_unit(msg)
             t == date_time(msg)
             by_unit == f.unit.some /\ Take(u.v, Len(f.unit.v)) # f.unit.v
             by_since == f.since.some /\ t.some /\ Before(t.v, f.since.v)
             by_until == f.until.some /\ t.some /\ Before(f.until.v, t.v)
         IN  IF (f.unit.some /\ u.panic) \/ ((f.since.some \/ f.until.some) /\ t.panic)
             THEN [panic |-> TRUE, value |-> FALSE]
             ELSE [panic |-> FALSE, value |-> by_unit \/ by_since \/ by_until]

\* (mutant) a configured unit decides alone: the time criteria are then not looked at
should_filter_unit_shadows(filter, msg) ==
    IF ~filter.some THEN [panic |-> FALSE, value |-> FALSE]
    ELSE LET f == filter.v
             u == systemd_unit(msg)
             t == date_time(msg)
             by_unit == f.unit.some /\ f.unit.v # u.v
             by_since == f.since.some /\ t.some /\ Before(t.v, f.since.v)
             by_until == f.until.some /\ t.some /\ Before(f.until.v, t.v)
         IN  IF (f.unit.some /\ u.panic) \/ ((f.since.some \/ f.until.some) /\ t.panic)
             THEN [panic |-> TRUE, value |-> FALSE]
             ELSE [panic |-> FALSE, value |-> IF f.unit.some THEN by_unit ELSE by_since \/ by_until]

\* parser.rs:455-487: [panic, value]
should_filter(filter, msg) ==
    IF ~filter.some THEN [panic |-> FALSE, value |-> FALSE]
    ELSE LET f == filter.v
             u == systemd_unit(msg)
             t == date_time(msg)
             by_unit == f.unit.some /\ f.unit.v # u.v
             by_since == f.since.some /\ t.some /\ Before(t.v, f.since.v)
             by_until == f.until.some /\ t.some /\ Before(f.until.v, t.v)
         IN  IF (f.unit.some /\ u.panic) \/ ((f.since.some \/ f.until.some) /\ t.panic)
             THEN [panic |-> TRUE, value |-> FALSE]
             ELSE [panic |-> FALSE, value |-> by_unit \/ by_since \/ by_until]

(***************************************************************************)
(* JournalBackupReader (parser.rs:402-557).  A reader object is the record *)
(*   reader          what the boxed Read will deliver: a sequence of       *)
(*                   chunks [kind, bytes]; kind "err" is a failing read,   *)
(*                   an empty `bytes` a zero-length read; past the last    *)
(*                   chunk every read is zero-length                       *)
(*   remainder, remainder_read, filter     the struct's fields             *)
(*   result          next()'s local `result.fields`                        *)
(*   pc              where next() stands: "idle" (not in a call), "loop"   *)
(*                   (the head of the while loop), "more" (at `if more`,   *)
(*                   more = true), "panic" (unwound)                       *)
(*   ret             what the last call returned                           *)
(*   yielded         the messages the caller has received, in order        *)
(*   io              the last read(): what it was, whether it came while  *)
(*                   a record was being assembled, and how many            *)
(*                   unconsumed bytes it kept                              *)
(***************************************************************************)
\* parser.rs:443: the size of read()'s stack buffer (32_768 in the source, scaled)
BUFFER_SIZE == 64
\* parser.rs:508: the ceiling of the while loop (10_000_000 in the source, scaled)
MAX_REMAINDER == 160

Data(b) == [kind |-> "data", bytes |-> b]
ReadError == [kind |-> "err", bytes |-> <<>>]

\* std::io::Read::read(&mut buffer) on the boxed reader: [ok, bytes, reader]
reader_read(reader) ==
    IF reader = <<>> THEN [ok |-> TRUE, bytes |-> <<>>, reader |-> reader]
    ELSE LET h == Head(reader)
             n == Min(Len(h.bytes), BUFFER_SIZE)
         IN  IF h.kind = "err" THEN [ok |-> FALSE, bytes |-> <<>>, reader |-> Tail(reader)]
             ELSE [ok |-> TRUE, bytes |-> Take(h.bytes, n),
                   reader |-> IF n = Len(h.bytes) THEN Tail(reader)
                              ELSE <<Data(Drop(h.bytes, n))>> \o Tail(reader)]

\* parser.rs:411-418
new(reader, filter) ==
    [reader |-> reader, filter |-> filter, remainder |-> <<>>, remainder_read |-> 0,
     result |-> <<>>, pc |-> "idle", ret |-> [tag |-> "-", msg |-> <<>>],
     yielded |-> <<>>, io |-> [last |-> "-", mid |-> FALSE, kept |-> 0]]

(***************************************************************************)
(* Files.  A file is [bytes, inflated]: the bytes on disk and, as an        *)
(* Option, the bytes a gzip decoder produces from them (None when they are  *)
(* no gzip stream).  An open file is a handle [file, pos].                  *)
(***************************************************************************)
\* File::open
open(file) == [file |-> file, pos |-> 0]

\* Read::read_exact(&mut buffer) with a buffer of n bytes: [ok, buffer, fh].
\* On a file with fewer than n bytes left it fails (UnexpectedEof).
read_exact(fh, n) ==
    LET left == Drop(fh.file.bytes, fh.pos)
    IN  IF Len(left) < n
        THEN [ok |-> FALSE, buffer |-> <<>>, fh |-> [fh EXCEPT !.pos = Len(fh.file.bytes)]]
        ELSE [ok |-> TRUE, buffer |-> Take(left, n), fh |-> [fh EXCEPT !.pos = fh.pos + n]]

\* Seek::seek(SeekFrom::Start(k))
seek_start(fh, k) == [fh EXCEPT !.pos = k]

\* parser.rs:801-808
GZ_MAGIC == <<31, 139>>
is_gz_magic(s) == tag(GZ_MAGIC, s).tag = "Ok"

\* What a Box<dyn Read> over the handle delivers: the file from the handle's
\* position on, or what GzDecoder makes of it (a failing read when the bytes
\* from that position are no gzip stream)
RawReader(fh) == <<Data(Drop(fh.file.bytes, fh.pos))>>
GzReader(fh) ==
    IF fh.pos = 0 /\ fh.file.inflated.some THEN <<Data(fh.file.inflated.v)>> ELSE <<ReadError>>

\* parser.rs:420-436: [ok, gz, pos, self]; ok = FALSE is the Err of `?`
open_file(file, filter) ==
    LET r == read_exact(open(file), 2)
        fh == seek_start(r.fh, 0)
    IN  IF ~r.ok THEN [ok |-> FALSE, gz |-> FALSE, pos |-> r.fh.pos, self |-> new(<<>>, filter)]
        ELSE IF is_gz_magic(r.buffer)
        THEN [ok |-> TRUE, gz |-> TRUE, pos |-> fh.pos, self |-> new(GzReader(fh), filter)]
        ELSE [ok |-> TRUE, gz |-> FALSE, pos |-> fh.pos, self |-> new(RawReader(fh), filter)]

\* (mutant) the unconsumed bytes are dropped with the consumed ones
read_drops_unconsumed(self) ==
    LET r == reader_read(self.reader)
    IN  [self |-> [self EXCEPT !.remainder = r.bytes,
                               !.remainder_read = 0,
                               !.reader = r.reader,
                               !.io = [last |-> IF ~r.ok THEN "err"
                                                ELSE IF r.bytes = <<>> THEN "eof" ELSE "data",
                                       mid |-> self.pc = "more", kept |-> 0]],
         l |-> IF r.ok THEN Len(r.bytes) ELSE 0 - 1]

\* (mutant) the new bytes are appended to the whole buffer and the offset stays
read_without_compaction(self) ==
    LET r == reader_read(self.reader)
        unread == Drop(self.remainder, self.remainder_read)
    IN  [self |-> [self EXCEPT !.remainder = self.remainder \o r.bytes,
                               !.reader = r.reader,
                               !.io = [last |-> IF ~r.ok THEN "err"
                                                ELSE IF r.bytes = <<>> THEN "eof" ELSE "data",
                                       mid |-> self.pc = "more" /\ (self.result # <<>> \/ unread # <<>>),
                                       kept |-> Len(unread)]],
         l |-> IF r.ok THEN Len(r.bytes) ELSE 0 - 1]

\* parser.rs:438-453: [self, l] with l = -1 for None
read(self) ==
    LET new_vec == Drop(self.remainder, self.remainder_read)
        r == reader_read(self.reader)
        mid == self.pc = "more" /\ (self.result # <<>> \/ new_vec # <<>>)
    IN  [self |-> [self EXCEPT !.remainder = new_vec \o r.bytes,
                               !.remainder_read = 0,
                               !.reader = r.reader,
                               !.io = [last |-> IF ~r.ok THEN "err"
                                                ELSE IF r.bytes = <<>> THEN "eof" ELSE "data",
                                       mid |-> mid, kept |-> Len(new_vec)]],
         l |-> IF r.ok THEN Len(r.bytes) ELSE 0 - 1]

\* `return None` / `return Some(result)` / panic!
return_none(self) == [self EXCEPT !.pc = "idle", !.result = <<>>, !.ret = [tag |-> "None", msg |-> <<>>]]
return_some(self) ==
    [self EXCEPT !.pc = "idle", !.result = <<>>, !.ret = [tag |-> "Some", msg |-> self.result],
                 !.yielded = Append(self.yielded, self.result)]
panic(self, why) == [self EXCEPT !.pc = "panic", !.result = <<>>, !.ret = [tag |-> why, msg |-> <<>>]]

\* parser.rs:494-505: the entry of next(), down to `let mut result`
next_enter(self) ==
    IF self.remainder = <<>>
    THEN LET r == read(self)
         IN  IF r.l <= 0 THEN return_none(r.self)
             ELSE [r.self EXCEPT !.result = <<>>, !.pc = "loop"]
    ELSE [self EXCEPT !.result = <<>>, !.pc = "loop"]

\* (mutant) a field is put in front of the fields decoded before it
next_parse_prepends(self) ==
    IF ~(Len(self.remainder) < MAX_REMAINDER) THEN panic(self, "Runaway")
    ELSE LET r == parse_end_of_msg(Drop(self.remainder, self.remainder_read))
             moved == [self EXCEPT !.remainder_read = Len(self.remainder) - Len(r.rest)]
             sf == should_filter(self.filter, self.result)
         IN  IF r.tag = "Ok"
             THEN IF r.out.some
                  THEN [moved EXCEPT !.result = <<r.out.v>> \o self.result]
                  ELSE IF sf.panic THEN panic(moved, "Utf8")
                  ELSE IF ~sf.value THEN return_some(moved)
                  ELSE [moved EXCEPT !.result = <<>>]
             ELSE IF r.tag = "Incomplete" THEN [self EXCEPT !.pc = "more"]
             ELSE panic(self, "Parser")

\* (mutant) a rejected record's fields stay in `result`
next_parse_keeps_rejected(self) ==
    IF ~(Len(self.remainder) < MAX_REMAINDER) THEN panic(self, "Runaway")
    ELSE LET r == parse_end_of_msg(Drop(self.remainder, self.remainder_read))
             moved == [self EXCEPT !.remainder_read = Len(self.remainder) - Len(r.rest)]
             sf == should_filter(self.filter, self.result)
         IN  IF r.tag = "Ok"
             THEN IF r.out.some
                  THEN [moved EXCEPT !.result = Append(self.result, r.out.v)]
                  ELSE IF sf.panic THEN panic(moved, "Utf8")
                  ELSE IF ~sf.value THEN return_some(moved)
                  ELSE moved
             ELSE IF r.tag = "Incomplete" THEN [self EXCEPT !.pc = "more"]
             ELSE panic(self, "Parser")

\* (mutant) the while loop has no ceiling
next_parse_unbounded(self) ==
    LET r == parse_end_of_msg(Drop(self.remainder, self.remainder_read))
        moved == [self EXCEPT !.remainder_read = Len(self.remainder) - Len(r.rest)]
        sf == should_filter(self.filter, self.result)
    IN  IF r.tag = "Ok"
        THEN IF r.out.some
             THEN [moved EXCEPT !.result = Append(self.result, r.out.v)]
             ELSE IF sf.panic THEN panic(moved, "Utf8")
             ELSE IF ~sf.value THEN return_some(moved)
             ELSE [moved EXCEPT !.result = <<>>]
        ELSE IF r.tag = "Incomplete" THEN [self EXCEPT !.pc = "more"]
        ELSE panic(self, "Parser")

\* (mutant) the length of the parsed slice is added to the offset of the slice
\* and the sum taken for the new offset
next_parse_offset_twice(self) ==
    IF ~(Len(self.remainder) < MAX_REMAINDER) THEN panic(self, "Runaway")
    ELSE LET r == parse_end_of_msg(Drop(self.remainder, self.remainder_read))
             moved == [self EXCEPT !.remainder_read =
                          self.remainder_read + Len(self.remainder) - Len(r.rest)]
             sf == should_filter(self.filter, self.result)
         IN  IF r.tag = "Ok"
             THEN IF r.out.some
                  THEN [moved EXCEPT !.result = Append(self.result, r.out.v)]
                  ELSE IF sf.panic THEN panic(moved, "Utf8")
                  ELSE IF ~sf.value THEN return_some(moved)
                  ELSE [moved EXCEPT !.result = <<>>]
             ELSE IF r.tag = "Incomplete" THEN [self EXCEPT !.pc = "more"]
             ELSE panic(self, "Parser")

\* parser.rs:508-541: the loop condition and one parse_end_of_msg
next_parse(self) ==
    IF ~(Len(self.remainder) < MAX_REMAINDER) THEN panic(self, "Runaway")
    ELSE LET r == parse_end_of_msg(Drop(self.remainder, self.remainder_read))
             moved == [self EXCEPT !.remainder_read = Len(self.remainder) - Len(r.rest)]
             sf == should_filter(self.filter, self.result)
         IN  IF r.tag = "Ok"
             THEN IF r.out.some
                  THEN [moved EXCEPT !.result = Append(self.result, r.out.v)]
                  ELSE IF sf.panic THEN panic(moved, "Utf8")
                  ELSE IF ~sf.value THEN return_some(moved)
                  ELSE [moved EXCEPT !.result = <<>>]
             ELSE IF r.tag = "Incomplete" THEN [self EXCEPT !.pc = "more"]
             ELSE panic(self, "Parser")

\* (mutant) at the end of the source the record in progress is returned
next_refill_salvages(self) ==
    LET r == read(self)
    IN  IF r.l <= 0
        THEN IF r.self.result # <<>> THEN return_some(r.self) ELSE return_none(r.self)
        ELSE [r.self EXCEPT !.pc = "loop"]

\* (mutant) the end of the source counts as a record terminator
next_refill_terminates(self) ==
    LET r == read(self)
    IN  IF r.l <= 0 THEN return_some(r.self) ELSE [r.self EXCEPT !.pc = "loop"]

\* (mutant) a read of zero bytes is taken for "nothing yet" and the loop goes on
next_refill_retries(self) ==
    LET r == read(self)
    IN  IF r.l < 0 THEN return_none(r.self) ELSE [r.self EXCEPT !.pc = "loop"]

\* parser.rs:543-552: `if more { match self.read() ... }`
next_refill(self) ==
    LET r == read(self)
    IN  IF r.l <= 0 THEN return_none(r.self) ELSE [r.self EXCEPT !.pc = "loop"]

\* One step of a call of next()
step(self) ==
    IF self.pc = "idle" THEN next_enter(self)
    ELSE IF self.pc = "loop" THEN next_parse(self)
    ELSE IF self.pc = "more" THEN next_refill(self)
    ELSE self

\* A whole call of next(), and the caller's `for msg in reader` (main.rs:30),
\* which pulls until the first None.
RECURSIVE run_call(_)
\* n is the reader after a step: the call has ended, or it goes on
run_on(n) == IF n.pc \in {"idle", "panic"} THEN n ELSE run_call(n)
run_call(self) == run_on(step(self))

RECURSIVE drain(_)
drain(self) ==
    LET n == run_call(self)
    IN  IF n.ret.tag = "Some" THEN drain(n) ELSE n

(***************************************************************************)
(* The export format (the rules quoted in parser.rs:9-15), used to build   *)
(* the streams the reader is run on.  A field to encode is                 *)
(* [name, value, binary].                                                  *)
(***************************************************************************)
le_bytes(n) == <<n % 256, (n \div 256) % 256, 0, 0, 0, 0, 0, 0>>

EncodeField(f) ==
    IF f.binary
    THEN f.name \o <<NEWLINE>> \o le_bytes(Len(f.value)) \o f.value \o <<NEWLINE>>
    ELSE f.name \o <<EQUALS>> \o f.value \o <<NEWLINE>>

RECURSIVE EncodeFields(_)
EncodeFields(fs) == IF fs = <<>> THEN <<>> ELSE EncodeField(Head(fs)) \o EncodeFields(Tail(fs))

EncodeRecord(fs) == EncodeFields(fs) \o <<NEWLINE>>

RECURSIVE EncodeStream(_)
EncodeStream(rs) == IF rs = <<>> THEN <<>> ELSE EncodeRecord(Head(rs)) \o EncodeStream(Tail(rs))

\* The message a record to encode stands for
MessageOf(fs) == [i \in 1..Len(fs) |-> <<fs[i].name, fs[i].value>>]
MessagesOf(rs) == [i \in 1..Len(rs) |-> MessageOf(rs[i])]

Text(n, v) == [name |-> n, value |-> v, binary |-> FALSE]
Binary(n, v) == [name |-> n, value |-> v, binary |-> TRUE]

\* The number of records of a stream of the model
MaxRecs == 2

\* All sequences of at most n elements of S
RECURSIVE SeqsUpTo(_, _)
SeqsUpTo(S, n) ==
    IF n = 0 THEN {<<>>}
    ELSE LET shorter == SeqsUpTo(S, n - 1)
         IN  shorter \cup {Append(q, e) : q \in shorter, e \in S}

\* Fields with plain names: a text value, an empty text value, a binary value
\* holding a newline, a binary value holding a zero byte and a newline.
PlainFields ==
    [a1 |-> Text(<<97>>, <<49>>), b0 |-> Text(<<98>>, <<>>),
     an |-> Binary(<<97>>, <<NEWLINE>>), bz |-> Binary(<<98, 99>>, <<0, NEWLINE>>)]

\* Fields the filter reads: the unit ("x", "xy") and the two timestamps
FilterFields ==
    [ux |-> Text(KEY_SYSTEMD_UNIT, <<120>>), uxy |-> Text(KEY_SYSTEMD_UNIT, <<120, 121>>),
     rt15 |-> Text(KEY_REALTIME_TIMESTAMP, <<49, 53, 48, 48, 48, 48, 48>>),
     srt2 |-> Text(KEY_SOURCE_REALTIME_TIMESTAMP, <<50, 48, 48, 48, 48, 48, 48>>)]

ModelFields == {PlainFields[n] : n \in DOMAIN PlainFields} \cup {FilterFields[n] : n \in DOMAIN FilterFields}

\* Records of plain fields: no field, one field, a repeated name, a repeated field
PlainRecords ==
    LET f == PlainFields
    IN  {<<>>, <<f.a1>>, <<f.a1, f.an>>, <<f.b0, f.a1>>, <<f.bz>>, <<f.a1, f.a1>>}

\* Records for the filter: with and without a unit, with and without a timestamp
FilterRecords ==
    LET f == FilterFields
    IN  {<<f.ux, f.rt15>>, <<f.uxy, f.srt2>>, <<PlainFields.a1>>, <<f.srt2, f.ux>>}

NoFilter == None
FilterOf(unit, since, until) == Some([unit |-> unit, since |-> since, until |-> until, lines |-> None])

Filters ==
    {FilterOf(None, None, None),
     FilterOf(Some(<<120>>), None, None),
     FilterOf(None, Some(<<2, 0>>), None),
     FilterOf(None, None, Some(<<1, 900000000>>)),
     FilterOf(Some(<<120>>), Some(<<1, 0>>), Some(<<2, 0>>))}

\* How a stream reaches the reader: whole; as the two pieces of a split at k; or as
\* the two pieces with a zero-length read between them.
Whole(b) == <<Data(b)>>
Split(b, k) == <<Data(Take(b, k)), Data(Drop(b, k))>>
Gap(b, k) == <<Data(Take(b, k)), Data(<<>>), Data(Drop(b, k))>>

Scenario(rs, f, kind, d) ==
    [recs |-> MessagesOf(rs), stream |-> EncodeStream(rs), filter |-> f, kind |-> kind, delivery |-> d]

\* n bytes 'x'
Fill(n) == [i \in 1..n |-> 120]

\* Streams with one long text field: below the ceiling; longer than the ceiling
\* and one read together; the latter after a short record.  Each is delivered
\* whole (the reads cut it into buffers), and with a first piece that fills the
\* remainder to one byte below the ceiling.
LongStreams ==
    {<<  <<Text(<<97>>, Fill(MAX_REMAINDER - BUFFER_SIZE))>>  >>,
     <<  <<Text(<<97>>, Fill(MAX_REMAINDER + BUFFER_SIZE))>>  >>,
     <<  <<PlainFields.a1>>, <<Text(<<97>>, Fill(MAX_REMAINDER + BUFFER_SIZE))>>  >>}
LongScenarios ==
    UNION {{Scenario(rs, NoFilter, "long", Whole(EncodeStream(rs))),
            Scenario(rs, NoFilter, "long", Split(EncodeStream(rs), MAX_REMAINDER - 1))}
              : rs \in LongStreams}

\* A stream given by its bytes
RawScenario(b, kind, d) ==
    [recs |-> <<>>, stream |-> b, filter |-> NoFilter, kind |-> kind, delivery |-> d]

\* Streams that open with a binary field "a" whose declared length is above the
\* ceiling (by one; 2^32), followed by n payload bytes: none, a few, all of them
\* with the two newlines, more than the ceiling and one read hold
OversizedStreams ==
    LET name == <<97, NEWLINE>>
        over == le_bytes(MAX_REMAINDER + 1)
        huge == <<0, 0, 0, 0, 1, 0, 0, 0>>
    IN  {name \o over, name \o over \o Fill(5),
         name \o over \o Fill(MAX_REMAINDER + 1) \o <<NEWLINE, NEWLINE>>,
         name \o huge, name \o huge \o Fill(MAX_REMAINDER + BUFFER_SIZE)}
OversizedScenarios ==
    UNION {{RawScenario(b, "oversized", Whole(b)),
            RawScenario(b, "oversized", Split(b, Min(Len(b), MAX_REMAINDER - 1)))}
              : b \in OversizedStreams}

\* Bytes that break the structure at a field position: an empty name; a binary
\* payload of the declared length (one byte; two newlines; none) followed by a
\* byte that is not a newline
BadFields ==
    {<<EQUALS, 120, NEWLINE, NEWLINE>>,
     <<98, NEWLINE>> \o le_bytes(1) \o <<120, 121, NEWLINE>>,
     <<98, NEWLINE>> \o le_bytes(2) \o <<NEWLINE, NEWLINE, 120>>,
     <<98, NEWLINE>> \o le_bytes(0) \o <<EQUALS, NEWLINE>>}

\* The bad bytes at the start of the stream, after a field of the record in
\* progress, and after a whole record; delivered at every split
MalformedScenarios ==
    LET before == {[recs |-> << >>, fields |-> << >>],
                   [recs |-> << >>, fields |-> <<PlainFields.a1>>],
                   [recs |-> << <<PlainFields.a1>> >>, fields |-> << >>]}
        Bytes(p, bad) == EncodeStream(p.recs) \o EncodeFields(p.fields) \o bad
    IN  UNION {{[recs |-> MessagesOf(p.recs), stream |-> Bytes(p, bad), filter |-> NoFilter,
                 kind |-> "malformed", delivery |-> Split(Bytes(p, bad), k)]
                    : k \in 0..Len(Bytes(p, bad))} : p \in before, bad \in BadFields}

\* Deliveries in which one read fails: the first one, one inside a record, one
\* between two records, and the one after the last byte
FailingScenarios ==
    LET rs == << <<PlainFields.a1, PlainFields.an>>, <<PlainFields.b0>> >>
        b == EncodeStream(rs)
        Failing(k) == <<Data(Take(b, k)), ReadError, Data(Drop(b, k))>>
    IN  {Scenario(rs, NoFilter, "fail", Failing(k))
            : k \in {0, 2, Len(EncodeRecord(rs[1])), Len(b)}}

Scenarios ==
    LET plain == SeqsUpTo(PlainRecords, MaxRecs)
        filt == SeqsUpTo(FilterRecords, MaxRecs)
    IN  LongScenarios \cup OversizedScenarios \cup MalformedScenarios \cup FailingScenarios \cup
        {Scenario(rs, NoFilter, "whole", Whole(EncodeStream(rs))) : rs \in plain}
        \cup UNION {{Scenario(rs, NoFilter, "split", Split(EncodeStream(rs), k))
                        : k \in 0..Len(EncodeStream(rs))} : rs \in plain}
        \cup UNION {{Scenario(rs, NoFilter, "gap", Gap(EncodeStream(rs), k))
                        : k \in 1..(Len(EncodeStream(rs)) - 1)} : rs \in plain}
        \cup UNION {{Scenario(rs, f, "whole", Whole(EncodeStream(rs))) : f \in Filters} : rs \in filt}
        \cup UNION {{Scenario(rs, f, "split", Split(EncodeStream(rs), Len(EncodeStream(rs)) \div 2))
                        : f \in Filters} : rs \in filt}

(***************************************************************************)
(* Direct calls of the pure functions: [fn, arg] and what the test knows   *)
(* about arg.                                                              *)
(***************************************************************************)
\* The length of the values and tails of the direct calls
MaxVal == 2

RECURSIVE ToDecimal(_)
ToDecimal(n) == IF n < 10 THEN <<48 + n>> ELSE ToDecimal(n \div 10) \o <<48 + (n % 10)>>

\* The instant that lies m microseconds after the epoch
InstantOfMicros(m) == <<m \div MICROS_PER_SEC, (m % MICROS_PER_SEC) * 1000>>

NoCall == [fn |-> "-", arg |-> None, about |-> None]
Pending == [done |-> FALSE, r |-> <<>>]

\* parse_value on a binary-form value followed by any bytes
BinaryValueCalls ==
    {[fn |-> "parse_value",
      arg |-> [s |-> <<NEWLINE>> \o le_bytes(Len(v)) \o v \o <<NEWLINE>> \o t],
      about |-> [form |-> "binary", payload |-> v, tail |-> t]]
        : v \in SeqsUpTo({0, NEWLINE, 120}, MaxVal), t \in SeqsUpTo({NEWLINE, 97}, MaxVal)}

\* parse_value on a binary-form value cut inside its 8-byte length or inside
\* its payload: the first k bytes of newline, length, payload.  The payloads
\* are the short ones and the seven bytes "foo\nbar" of parse_value_test.
TruncatedValueCalls ==
    LET payloads == SeqsUpTo({NEWLINE, 120}, MaxVal) \cup {<<102, 111, 111, NEWLINE, 98, 97, 114>>}
        Whole9(v) == <<NEWLINE>> \o le_bytes(Len(v)) \o v
    IN  UNION {{[fn |-> "parse_value",
                 arg |-> [s |-> Take(Whole9(v), k)],
                 about |-> [form |-> "truncated", declared |-> Len(v),
                            length_bytes |-> Min(k - 1, 8),
                            payload_bytes |-> IF k > 9 THEN k - 9 ELSE 0]]
                    : k \in 1..(8 + Len(v))} : v \in payloads}

\* parse_value on '=' followed by any bytes
TextValueCalls ==
    {[fn |-> "parse_value", arg |-> [s |-> <<EQUALS>> \o t], about |-> [form |-> "text"]]
        : t \in SeqsUpTo({EQUALS, NEWLINE, 97, 0}, MaxVal + 1)}

\* should_filter on a message with or without a timestamp, under time bounds
\* given in microseconds
TimeBounds == {None, Some(1200000), Some(1500000), Some(2000000)}
Pair(n, v) == <<n, v>>
TimedMessages ==
    {[msg |-> << Pair(KEY_REALTIME_TIMESTAMP, ToDecimal(t)) >>, t |-> Some(t)]
        : t \in {1000000, 1500000, 1999999, 2000000}}
    \cup {[msg |-> << Pair(<<97>>, <<49>>), Pair(KEY_SOURCE_REALTIME_TIMESTAMP, ToDecimal(t)),
                     Pair(KEY_REALTIME_TIMESTAMP, ToDecimal(1)) >>, t |-> Some(t)]
        : t \in {1500000, 3000000}}
    \cup {[msg |-> << >>, t |-> None],
          [msg |-> << Pair(<<97>>, <<49>>) >>, t |-> None],
          [msg |-> << Pair(KEY_REALTIME_TIMESTAMP, <<122>>) >>, t |-> None]}
BoundOf(b) == IF b.some THEN Some(InstantOfMicros(b.v)) ELSE None
TimeFilterCalls ==
    {[fn |-> "should_filter",
      arg |-> [filter |-> FilterOf(None, BoundOf(s), BoundOf(u)), msg |-> m.msg],
      about |-> [t |-> m.t, since |-> s, until |-> u]]
        : m \in TimedMessages, s \in TimeBounds, u \in TimeBounds}

\* should_filter under a unit criterion alone, on a message whose _SYSTEMD_UNIT
\* is absent, a text ("", "x", "xy", "y", "X", "yx") or a binary value that is
\* not UTF-8
UnitStrings == {<<>>, <<120>>, <<120, 121>>, <<121>>}
UnitMessages ==
    {[msg |-> << >>, unit |-> None], [msg |-> << Pair(<<97>>, <<49>>) >>, unit |-> None]}
    \cup {[msg |-> << Pair(<<97>>, <<49>>), Pair(KEY_SYSTEMD_UNIT, v) >>, unit |-> Some(v)]
            : v \in UnitStrings \cup {<<88>>, <<121, 120>>, <<255>>}}
UnitFilterCalls ==
    {[fn |-> "should_filter",
      arg |-> [filter |-> FilterOf(Some(c), None, None), msg |-> m.msg],
      about |-> [configured |-> c, unit |-> m.unit]]
        : m \in UnitMessages, c \in UnitStrings}

\* should_filter under every combination of criteria (also no filter and no
\* criterion), on messages with every combination of a unit (absent, "x", "xy",
\* not UTF-8) and a timestamp (absent, 0.5 s, 1.5 s, 2.5 s, not a number, -1)
CombinedUnits == {None, Some(<<120>>), Some(<<120, 121>>), Some(<<255>>)}
CombinedTimes ==
    {None, Some(ToDecimal(500000)), Some(ToDecimal(1500000)), Some(ToDecimal(2500000)),
     Some(<<122>>), Some(<<45, 49>>)}
CombinedMessages ==
    {(IF u.some THEN << Pair(KEY_SYSTEMD_UNIT, u.v) >> ELSE << >>)
        \o (IF t.some THEN << Pair(KEY_REALTIME_TIMESTAMP, t.v) >> ELSE << >>)
        : u \in CombinedUnits, t \in CombinedTimes}
CombinedBounds == {None, Some(<<1, 0>>), Some(<<2, 0>>)}
CombinedFilters ==
    {NoFilter} \cup {FilterOf(u, s, t) : u \in {None, Some(<<120>>)}, s \in CombinedBounds, t \in CombinedBounds}
CombinedFilterCalls ==
    {[fn |-> "should_filter", arg |-> [filter |-> f, msg |-> m], about |-> [family |-> "combined"]]
        : f \in CombinedFilters, m \in CombinedMessages}

\* field, message and systemd_unit on messages whose MESSAGE, SYSLOG_RAW or
\* _SYSTEMD_UNIT holds a text ("", "x", U+00E9), a binary value that is text
\* (a zero byte and a newline), or one that is not UTF-8 (0xFF; a cut sequence)
LookupValues == {<<>>, <<120>>, <<195, 169>>, <<0, NEWLINE>>, <<255>>, <<195>>}
LookupMessages ==
    {<< >>, << Pair(KEY_MESSAGE, <<>>), Pair(KEY_SYSLOG_RAW, <<255>>) >>,
     << Pair(KEY_MESSAGE, <<>>), Pair(KEY_SYSLOG_RAW, <<120>>) >>}
    \cup {<< Pair(<<97>>, <<255>>), Pair(k, v) >>
            : k \in {KEY_MESSAGE, KEY_SYSTEMD_UNIT}, v \in LookupValues}
LookupCalls ==
    {[fn |-> "field", arg |-> [msg |-> m, key |-> k], about |-> [family |-> "lookup"]]
        : m \in LookupMessages, k \in {KEY_MESSAGE, KEY_SYSTEMD_UNIT, <<97>>}}
    \cup {[fn |-> f, arg |-> [msg |-> m], about |-> [family |-> "lookup"]]
        : m \in LookupMessages, f \in {"message", "systemd_unit"}}

\* date_time on messages with either, both or none of the two timestamp fields.
\* A content is [text, n]: the text of the field and the integer it denotes, if
\* any: decimal numerals with or without a sign, and texts that are no integer
\* ("z", "", "1x", "-", "1.5").
Numeral(n) == [text |-> IF n < 0 THEN <<45>> \o ToDecimal(0 - n) ELSE ToDecimal(n), n |-> Some(n)]
NoNumeral(t) == [text |-> t, n |-> None]
TimeContents ==
    {Numeral(n) : n \in {0, 1, 999999, 1000000, 1500000, 2000001, 0 - 1, 0 - 1000000, 0 - 1500000}}
    \cup {[text |-> <<43, 53>>, n |-> Some(5)]}
    \cup {NoNumeral(t) : t \in {<<122>>, <<>>, <<49, 120>>, <<45>>, <<49, 46, 53>>}}
SourceContents == {Numeral(2000001), Numeral(0 - 1), NoNumeral(<<122>>), NoNumeral(<<>>)}
DateTimeCalls ==
    {[fn |-> "date_time",
      arg |-> [msg |-> << Pair(<<97>>, <<49>>) >>
                        \o (IF r.some THEN << Pair(KEY_REALTIME_TIMESTAMP, r.v.text) >> ELSE << >>)
                        \o (IF c.some THEN << Pair(KEY_SOURCE_REALTIME_TIMESTAMP, c.v.text) >> ELSE << >>)],
      about |-> [source |-> c, realtime |-> r]]
        : c \in {None} \cup {Some(x) : x \in SourceContents},
          r \in {None} \cup {Some(x) : x \in TimeContents}}

\* message on records with every combination of MESSAGE (absent, "", "x", a
\* zero byte and a newline, not UTF-8) and SYSLOG_RAW (absent, "", "y", not
\* UTF-8), in both orders, and with MESSAGE twice
MessageCalls ==
    LET ms == {None, Some(<<>>), Some(<<120>>), Some(<<0, NEWLINE>>), Some(<<255>>)}
        rs == {None, Some(<<>>), Some(<<121>>), Some(<<255>>)}
        M(m) == IF m.some THEN << Pair(KEY_MESSAGE, m.v) >> ELSE << >>
        R(r) == IF r.some THEN << Pair(KEY_SYSLOG_RAW, r.v) >> ELSE << >>
        A == << Pair(<<97>>, <<49>>) >>
    IN  {[fn |-> "message", arg |-> [msg |-> fs], about |-> [family |-> "message"]]
            : fs \in {A \o M(m) \o R(r) : m \in ms, r \in rs}
                    \cup {R(r) \o M(m) \o A : m \in ms, r \in rs}
                    \cup {M(m) \o M(Some(<<122>>)) \o R(r) : m \in ms, r \in rs}}

\* open_file on files of 0, 1, 2 and more bytes: with the gzip magic (a gzip
\* stream, or the two bytes alone), with half of it, with it reversed, without it
OpenFileCalls ==
    {[fn |-> "open_file", arg |-> [bytes |-> b, inflated |-> None], about |-> [family |-> "open_file"]]
        : b \in {<<>>, <<NEWLINE>>, <<31>>, <<31, 139>>, <<139, 31>>, <<31, 140, NEWLINE>>,
                 <<97, EQUALS, 49, NEWLINE, NEWLINE>>}}
    \cup {[fn |-> "open_file",
           arg |-> [bytes |-> <<31, 139, 8, 0>>, inflated |-> Some(<<97, EQUALS, 49, NEWLINE, NEWLINE>>)],
           about |-> [family |-> "open_file"]]}

Calls ==
    BinaryValueCalls \cup TruncatedValueCalls \cup TextValueCalls \cup TimeFilterCalls \cup UnitFilterCalls
        \cup CombinedFilterCalls \cup LookupCalls \cup DateTimeCalls \cup MessageCalls
        \cup OpenFileCalls

\* main() before it runs (main.rs:27-30): [pc, files, line_count, stdout, pulls];
\* pc is "files" (at `for file`), "iter" (at `for msg`), "done" (returned) or
\* "panic"; stdout holds the records written, pulls counts the calls of next()
NoMain == [pc |-> "-", files |-> <<>>, line_count |-> 0, stdout |-> <<>>, pulls |-> 0]

VARIABLES
    reader, remainder, remainder_read, filter,   \* the JournalBackupReader
    result, pc, ret,                             \* the call of next() in progress
    yielded, io,                                 \* what the caller and the source saw
    given,                                       \* the scenario: records, stream, delivery
    call, out,                                   \* a direct call of a function and its result
    main                                         \* the program: where main() stands, its locals, its output

vars ==
    <<reader, remainder, remainder_read, filter, result, pc, ret, yielded, io, given, call, out, main>>

\* The reader object of the current state
Self ==
    [reader |-> reader, filter |-> filter, remainder |-> remainder,
     remainder_read |-> remainder_read, result |-> result, pc |-> pc, ret |-> ret,
     yielded |-> yielded, io |-> io]

StartsAs(n) ==
    /\ reader = n.reader
    /\ filter = n.filter
    /\ remainder = n.remainder
    /\ remainder_read = n.remainder_read
    /\ result = n.result
    /\ pc = n.pc
    /\ ret = n.ret
    /\ yielded = n.yielded
    /\ io = n.io

Becomes(n) ==
    /\ reader' = n.reader
    /\ filter' = n.filter
    /\ remainder' = n.remainder
    /\ remainder_read' = n.remainder_read
    /\ result' = n.result
    /\ pc' = n.pc
    /\ ret' = n.ret
    /\ yielded' = n.yielded
    /\ io' = n.io
    /\ UNCHANGED <<given, call, out, main>>

(***************************************************************************)
(* Spec: a reader over a stream of the scenarios, and a caller of next().  *)
(***************************************************************************)
Init ==
    \E sc \in Scenarios :
        /\ given = sc
        /\ StartsAs(new(sc.delivery, sc.filter))
        /\ call = NoCall
        /\ out = Pending
        /\ main = NoMain

\* The caller calls next()
Call == pc = "idle" /\ Becomes(next_enter(Self))
\* One turn of the while loop, up to `if more`
Parse == pc = "loop" /\ Becomes(next_parse(Self))
\* The refill of `if more`
Refill == pc = "more" /\ Becomes(next_refill(Self))

Next == Call \/ Parse \/ Refill

Spec == Init /\ [][Next]_vars

(***************************************************************************)
(* SpecLive: the reader over a finite stream that arrives as non-empty     *)
(* chunks and then as zero-length reads, with a caller that goes on        *)
(* calling next() (`for msg in reader`, main.rs:30) and a program that     *)
(* goes on running: a call is made whenever the reader is idle, a refill   *)
(* and a turn of the loop are taken whenever the call stands at one.       *)
(***************************************************************************)
\* Non-empty chunks, then zero-length reads only
ChunksThenEmpty(d) ==
    \E k \in 0..Len(d) :
        \A i \in 1..Len(d) :
            /\ d[i].kind = "data"
            /\ d[i].bytes # <<>> <=> i <= k

InitLive ==
    \E sc \in {x \in Scenarios : ChunksThenEmpty(x.delivery)} :
        /\ given = sc
        /\ StartsAs(new(sc.delivery, sc.filter))
        /\ call = NoCall
        /\ out = Pending
        /\ main = NoMain

\* Weak fairness of a turn of the loop, WF_vars(Parse), with ENABLED <<Parse>>_vars
\* written out: a turn can be taken exactly when the call stands at the loop
\* head, and it always changes the state
FairParse == []<>(pc # "loop") \/ []<><<Parse>>_vars

SpecLive == InitLive /\ [][Next]_vars /\ WF_vars(Call) /\ WF_vars(Refill) /\ FairParse

(***************************************************************************)
(* SpecFn: one direct call of a pure function.                             *)
(***************************************************************************)
NoScenario == Scenario(<<>>, NoFilter, "-", <<>>)

InitFn ==
    \E c \in Calls :
        /\ call = c
        /\ out = Pending
        /\ given = NoScenario
        /\ StartsAs(new(<<>>, NoFilter))
        /\ main = NoMain

Returns(r) ==
    /\ ~out.done
    /\ out' = [done |-> TRUE, r |-> r]
    /\ UNCHANGED <<reader, remainder, remainder_read, filter, result, pc, ret, yielded, io, given, call, main>>

CallParseValue == call.fn = "parse_value" /\ Returns(parse_value(call.arg.s))
CallShouldFilter == call.fn = "should_filter" /\ Returns(should_filter(call.arg.filter, call.arg.msg))

CallField == call.fn = "field" /\ Returns(field(call.arg.msg, call.arg.key))
CallMessage == call.fn = "message" /\ Returns(message(call.arg.msg))
CallSystemdUnit == call.fn = "systemd_unit" /\ Returns(systemd_unit(call.arg.msg))

CallDateTime == call.fn = "date_time" /\ Returns(date_time(call.arg.msg))
CallOpenFile ==
    /\ call.fn = "open_file"
    /\ Returns(open_file(call.arg, NoFilter))

NextFn ==
    CallParseValue \/ CallShouldFilter \/ CallField \/ CallMessage \/ CallSystemdUnit
        \/ CallDateTime \/ CallOpenFile

SpecFn == InitFn /\ [][NextFn]_vars

(***************************************************************************)
(* SpecMain: the program (main.rs:24-48) over the files of its command      *)
(* line.  `call` holds the invocation, arg = [files, filter].               *)
(***************************************************************************)
\* The number of files on the command line
MaxFiles == 2

RawFile(b) == [bytes |-> b, inflated |-> None]
GzFile(b) == [bytes |-> GZ_MAGIC \o <<8, 0>>, inflated |-> Some(b)]

\* Files of one and of two records, a gzip file of two records, a file of one
\* byte (one record without fields)
MainFiles ==
    LET r1 == <<PlainFields.a1>>
        r2 == <<PlainFields.b0, PlainFields.a1>>
    IN  {RawFile(EncodeStream(<<r1>>)), RawFile(EncodeStream(<<r2, r1>>)),
         GzFile(EncodeStream(<<r1, r2>>)), RawFile(<<NEWLINE>>)}

\* -n: absent, 0, 1, 2, 3, 4
MainLines == {None} \cup {Some(n) : n \in 0..(2 * MaxFiles)}

Invocations ==
    {[fn |-> "main",
      arg |-> [files |-> fs, filter |-> [unit |-> None, since |-> None, until |-> None, lines |-> n]],
      about |-> [family |-> "main"]]
        : fs \in SeqsUpTo(MainFiles, MaxFiles), n \in MainLines}

InitMain ==
    \E c \in Invocations :
        /\ call = c
        /\ out = Pending
        /\ given = NoScenario
        /\ StartsAs(new(<<>>, NoFilter))
        /\ main = [NoMain EXCEPT !.pc = "files", !.files = c.arg.files]

\* The reader object of the next state is n; main's variable is set by the action
Holds(n) ==
    /\ reader' = n.reader
    /\ filter' = n.filter
    /\ remainder' = n.remainder
    /\ remainder_read' = n.remainder_read
    /\ result' = n.result
    /\ pc' = n.pc
    /\ ret' = n.ret
    /\ yielded' = n.yielded
    /\ io' = n.io
    /\ UNCHANGED <<given, call, out>>

\* main.rs:29-30: `for file in files`, open_file(file, Some(filter)).unwrap()
OpenNext ==
    /\ main.pc = "files" /\ main.files # <<>>
    /\ LET o == open_file(Head(main.files), Some(call.arg.filter))
       IN  IF o.ok
           THEN Holds(o.self) /\ main' = [main EXCEPT !.pc = "iter", !.files = Tail(main.files)]
           ELSE Holds(Self) /\ main' = [main EXCEPT !.pc = "panic"]

\* main.rs:29 and 47: the files are used up, main returns
Exit ==
    /\ main.pc = "files" /\ main.files = <<>>
    /\ Holds(Self) /\ main' = [main EXCEPT !.pc = "done"]

\* main.rs:30-45: one turn of `for msg in reader`: a call of next(), the write
\* to stdout (it succeeds, fails with BrokenPipe, or fails otherwise), the count
\* and the test of the limit
Pull ==
    /\ main.pc = "iter"
    /\ \E w \in {"ok", "pipe", "other"}, n \in {run_call(Self)} :
         LET pulled == [main EXCEPT !.pulls = main.pulls + 1]
             count == main.line_count + 1
             lines == call.arg.filter.lines
         IN  /\ Holds(n)
             /\ main' =
                  IF n.pc = "panic" THEN [pulled EXCEPT !.pc = "panic"]
                  ELSE IF n.ret.tag = "None" THEN [pulled EXCEPT !.pc = "files"]
                  ELSE IF w = "pipe" THEN [pulled EXCEPT !.pc = "done"]
                  ELSE [pulled EXCEPT
                          !.stdout = IF w = "ok" THEN Append(main.stdout, n.ret.msg) ELSE main.stdout,
                          !.line_count = count,
                          !.pc = IF lines.some /\ count = lines.v THEN "done" ELSE "iter"]

NextMain == OpenNext \/ Exit \/ Pull

SpecMain == InitMain /\ [][NextMain]_vars
(***************************************************************************)
(* Properties                                                              *)
(***************************************************************************)
Unconsumed == Drop(remainder, remainder_read)
IsPrefix(p, q) == Len(p) <= Len(q) /\ p = Take(q, Len(p))
\* The source has delivered everything and the last call returned None
Exhausted == pc = "idle" /\ ret.tag = "None" /\ reader = <<>>
\* The source delivers the stream without a zero-length read inside it
Unbroken == given.kind \in {"whole", "split"}
\* The next read is zero-length / delivers bytes
NextReadEmpty == reader = <<>> \/ (Head(reader).kind = "data" /\ Head(reader).bytes = <<>>)
NextReadData == reader # <<>> /\ Head(reader).kind = "data" /\ Head(reader).bytes # <<>>
\* The records of the scenario that its filter accepts
Accepted ==
    LET Passes(m) == ~should_filter(given.filter, m).value
    IN  SelectSeq(given.recs, Passes)

\* C1: a stream that one read can deliver whole, delivered as the two pieces of a
\* split at any offset, yields the same sequence of records as the same stream
\* delivered in one read.
C1_SplitEquivalence ==
    (given.kind = "split" /\ Len(given.stream) <= BUFFER_SIZE /\ Exhausted)
        => yielded = drain(new(Whole(given.stream), given.filter)).yielded

\* A split inside the length prefix of a binary field, both records received
C1_Witness ==
    /\ given.kind = "split" /\ Exhausted
    /\ Len(given.delivery[1].bytes) = 10
    /\ Len(yielded) = 2
    /\ yielded[1] = MessageOf(<<PlainFields.a1, PlainFields.an>>)

\* C2: without a filter the records come in the order of their terminators, each
\* with exactly its fields in stream order, repeated names kept: what has been
\* yielded is a prefix of the stream's records, and the record in progress is a
\* prefix of the record that follows them.
C2_StreamOrder ==
    (given.filter = NoFilter /\ Unbroken) =>
        /\ IsPrefix(yielded, given.recs)
        /\ (pc \in {"loop", "more"} /\ result # <<>>) =>
                /\ Len(yielded) < Len(given.recs)
                /\ IsPrefix(result, given.recs[Len(yielded) + 1])

\* A record with a repeated name was yielded after another record
C2_Witness ==
    /\ given.filter = NoFilter /\ Unbroken
    /\ Len(yielded) = 2
    /\ yielded[1] = MessageOf(<<PlainFields.b0, PlainFields.a1>>)
    /\ yielded[2] = MessageOf(<<PlainFields.a1, PlainFields.a1>>)

\* C3: a zero-length read while a record is being assembled (fields decoded, or
\* bytes of a field buffered) ends the call with None: no panic, and nothing is
\* yielded.
C3_EofMidRecord ==
    [][(pc = "more" /\ NextReadEmpty /\ (result # <<>> \/ Unconsumed # <<>>))
          => (pc' = "idle" /\ ret'.tag = "None" /\ yielded' = yielded)]_vars

\* The call returned None on a zero-length read that met a record in progress,
\* with bytes still to come
C3_Witness ==
    /\ pc = "idle" /\ ret.tag = "None"
    /\ io.last = "eof" /\ io.mid /\ io.kept > 0
    /\ given.kind = "gap"

\* C4: parse_value on name-less binary form (newline, 8-byte little-endian n, n
\* payload bytes, newline, then any tail) returns the n payload bytes unchanged,
\* whatever they are, and leaves the tail unconsumed.
C4_BinaryValueExact ==
    (out.done /\ call.fn = "parse_value" /\ call.about.form = "binary") =>
        /\ out.r.tag = "Ok"
        /\ Len(out.r.out) = Len(call.about.payload)
        /\ out.r.out = call.about.payload
        /\ out.r.rest = call.about.tail

\* A payload of a newline and a zero byte, followed by a tail
C4_Witness ==
    /\ out.done /\ call.fn = "parse_value" /\ call.about.form = "binary"
    /\ call.about.payload = <<NEWLINE, 0>>
    /\ call.about.tail = <<97, NEWLINE>>
    /\ out.r.tag = "Ok"

\* C5: parse_value on text form succeeds exactly when a newline follows the '=',
\* and the value is then the run of bytes between the '=' and the first newline:
\* it holds no newline.
C5_TextValueNoNewline ==
    (out.done /\ call.fn = "parse_value" /\ call.about.form = "text") =>
        LET s == call.arg.s
        IN  /\ (\E k \in 2..Len(s) : s[k] = NEWLINE) <=> out.r.tag = "Ok"
            /\ out.r.tag = "Ok" =>
                  /\ \A i \in 1..Len(out.r.out) : out.r.out[i] # NEWLINE
                  /\ \E k \in 2..Len(s) :
                        /\ s[k] = NEWLINE
                        /\ out.r.out = SubSeq(s, 2, k - 1)
                        /\ out.r.rest = SubSeq(s, k + 1, Len(s))

\* An empty value, and a value holding '=', each with bytes after the newline
C5_Witness ==
    /\ out.done /\ call.fn = "parse_value" /\ call.about.form = "text"
    /\ out.r.tag = "Ok"
    /\ call.arg.s = <<EQUALS, EQUALS, NEWLINE, NEWLINE>>
    /\ out.r.out = <<EQUALS>>

\* Some field of the model's streams has u as a proper prefix of its encoding
IsFieldPrefix(u) ==
    \E f \in ModelFields : Len(u) < Len(EncodeField(f)) /\ u = Take(EncodeField(f), Len(u))

\* C6: when the unconsumed bytes are a proper prefix (also the empty one) of an
\* encoded field, the parse reports need-more-input and changes nothing; the
\* refill that follows keeps the unconsumed bytes, appends the chunk read, and
\* the loop parses again from the same byte with the same fields in `result`.
C6_PrefixResumes ==
    /\ [][(pc = "loop" /\ Len(remainder) < MAX_REMAINDER /\ IsFieldPrefix(Unconsumed))
            => /\ pc' = "more"
               /\ remainder' = remainder /\ remainder_read' = remainder_read
               /\ result' = result /\ yielded' = yielded]_vars
    /\ [][(pc = "more" /\ NextReadData)
            => /\ pc' = "loop"
               /\ Drop(remainder', remainder_read')
                     = Unconsumed \o Take(Head(reader).bytes, BUFFER_SIZE)
               /\ result' = result /\ yielded' = yielded]_vars

\* The loop is back at its head after a refill that kept bytes of a field and
\* fields of the record
C6_Witness ==
    /\ pc = "loop" /\ io.last = "data" /\ io.mid
    /\ io.kept > 0 /\ result # <<>>

\* C7: without a filter, k records back to back yield exactly k records and then
\* None: the blank line that ends the last record yields no further, empty one.
C7_NoSpuriousRecord ==
    (given.filter = NoFilter /\ Unbroken /\ Exhausted) =>
        /\ Len(yielded) = Len(given.recs)
        /\ yielded = given.recs

\* Two records with fields were yielded, then None
C7_Witness ==
    /\ given.filter = NoFilter /\ given.kind = "whole" /\ Exhausted
    /\ Len(given.recs) = MaxRecs /\ Len(yielded) = MaxRecs
    /\ \A i \in 1..MaxRecs : yielded[i] # <<>>

\* The record in progress is handed to the filter: yielded, rejected, or the
\* filter panics
Completes ==
    \/ pc' = "idle" /\ ret' = [tag |-> "Some", msg |-> result] /\ yielded' = Append(yielded, result)
    \/ filter.some /\ pc' = "loop" /\ result' = <<>> /\ yielded' = yielded
    \/ filter.some /\ pc' = "panic" /\ ret'.tag = "Utf8" /\ yielded' = yielded

\* C8: a newline as the next unconsumed byte at the head of the loop consumes
\* exactly that byte and completes the record, also one without fields; the
\* stream of one newline yields, without a filter, one record without fields and
\* then None.
C8_Terminator ==
    /\ [][(pc = "loop" /\ Len(remainder) < MAX_REMAINDER
             /\ Unconsumed # <<>> /\ Unconsumed[1] = NEWLINE)
            => (remainder' = remainder /\ remainder_read' = remainder_read + 1 /\ Completes)]_vars
    /\ []((given.stream = <<NEWLINE>> /\ given.filter = NoFilter /\ Exhausted)
            => yielded = << <<>> >>)

\* The stream of one newline has yielded its record without fields
C8_Witness ==
    /\ given.stream = <<NEWLINE>> /\ given.filter = NoFilter /\ Exhausted
    /\ yielded = << <<>> >>

\* C9: with a filter, every record yielded is one the filter accepts; the records
\* yielded are the accepted records of the stream, whole and in order (nothing of
\* a rejected record is in them or in the record in progress); and a call
\* returns None only on a zero-length read, never after a rejection alone.
C9_RejectedNeverSurface ==
    (given.filter.some /\ Unbroken) =>
        /\ \A i \in 1..Len(yielded) : ~should_filter(filter, yielded[i]).value
        /\ IsPrefix(yielded, Accepted)
        /\ Exhausted => yielded = Accepted
        /\ (pc = "idle" /\ ret.tag = "None") => io.last = "eof"
        /\ pc \in {"loop", "more"} => \E i \in 1..(Len(given.recs) + 1) :
              IsPrefix(result, IF i <= Len(given.recs) THEN given.recs[i] ELSE <<>>)

\* The first record was rejected and the second yielded, in one call
C9_Witness ==
    /\ given.filter.some /\ given.kind = "whole" /\ Exhausted
    /\ Len(given.recs) = 2
    /\ should_filter(given.filter, given.recs[1]).value
    /\ yielded = <<given.recs[2]>>

\* C10: a record with timestamp T (microseconds) is rejected exactly when the
\* since-bound S > T or the until-bound U < T (bounds inclusive, given in
\* microseconds); a record without a timestamp is never rejected by the bounds.
C10_TimeWindow ==
    (out.done /\ call \in TimeFilterCalls) =>
        LET t == call.about.t
            s == call.about.since
            u == call.about.until
            outside == t.some /\ ((s.some /\ s.v > t.v) \/ (u.some /\ u.v < t.v))
        IN  ~out.r.panic /\ out.r.value = outside

\* What a call of should_filter answered
FilterAccepted(r) == ~r.panic /\ ~r.value
FilterRejected(r) == ~r.panic /\ r.value

\* C11: with a unit configured, should_filter accepts a record exactly when the
\* value of its _SYSTEMD_UNIT field, the empty string when the field is absent,
\* is the configured string; a text value that differs, even by one character,
\* is rejected.
C11_UnitExactMatch ==
    (out.done /\ call \in UnitFilterCalls) =>
        LET have == IF call.about.unit.some THEN call.about.unit.v ELSE <<>>
        IN  /\ FilterAccepted(out.r) <=> have = call.about.configured
            /\ (IsUtf8(have) /\ have # call.about.configured) => FilterRejected(out.r)

\* The unit "xy" was rejected under the configured unit "x"
C11_Witness ==
    /\ out.done /\ call \in UnitFilterCalls
    /\ call.about.configured = <<120>> /\ call.about.unit = Some(<<120, 121>>)
    /\ FilterRejected(out.r)

\* The filters that hold one configured criterion of the filter f each
Criteria(f) ==
    IF ~f.some THEN {}
    ELSE {g \in {FilterOf(f.v.unit, None, None), FilterOf(None, f.v.since, None),
                 FilterOf(None, None, f.v.until)} : g # FilterOf(None, None, None)}

\* C12: should_filter accepts a record exactly when each configured criterion
\* (unit, since, until), taken alone, accepts it; hence a criterion that is not
\* configured rejects nothing, and without a filter or without a criterion every
\* record is accepted.
C12_CriteriaConjunction ==
    (out.done /\ call \in CombinedFilterCalls) =>
        LET f == call.arg.filter
            m == call.arg.msg
        IN  /\ FilterAccepted(out.r) <=> \A g \in Criteria(f) : FilterAccepted(should_filter(g, m))
            /\ Criteria(f) = {} => FilterAccepted(out.r)

\* Under unit "x", since 1 s and until 2 s: a record of unit "x" stamped 2.5 s was
\* rejected by the until-bound alone
C12_Witness ==
    /\ out.done /\ call \in CombinedFilterCalls
    /\ call.arg.filter = FilterOf(Some(<<120>>), Some(<<1, 0>>), Some(<<2, 0>>))
    /\ call.arg.msg = << Pair(KEY_SYSTEMD_UNIT, <<120>>), Pair(KEY_REALTIME_TIMESTAMP, ToDecimal(2500000)) >>
    /\ FilterRejected(out.r)
    /\ FilterAccepted(should_filter(FilterOf(Some(<<120>>), None, None), call.arg.msg))
    /\ FilterAccepted(should_filter(FilterOf(None, Some(<<1, 0>>), None), call.arg.msg))

\* C13 as claimed: in every state, also right after a refill, the unconsumed
\* bytes number at most the ceiling.
C13_CeilingAlways == Len(Unconsumed) <= MAX_REMAINDER

\* C13: the ceiling is tested at the head of the loop, on the whole remainder
\* and before the parse.  A refill happens only below the ceiling and adds one
\* read of at most BUFFER_SIZE bytes, so that the buffered bytes, and with them
\* the unconsumed ones, number at most the ceiling less one plus BUFFER_SIZE;
\* the loop head that finds the ceiling reached panics (runaway growth) and
\* yields nothing.
C13_CeilingAtLoopHead ==
    /\ [](Len(Unconsumed) <= Len(remainder) /\ Len(remainder) <= MAX_REMAINDER - 1 + BUFFER_SIZE)
    /\ [](pc = "more" => Len(remainder) < MAX_REMAINDER)
    /\ [][(pc = "loop" /\ Len(remainder) >= MAX_REMAINDER)
            => (pc' = "panic" /\ ret'.tag = "Runaway" /\ yielded' = yielded
                 /\ remainder' = remainder /\ reader' = reader)]_vars

\* The refill of a remainder one byte below the ceiling brought a full read:
\* the unconsumed bytes passed the ceiling, and the loop head panicked
C13_Witness ==
    /\ pc = "panic" /\ ret.tag = "Runaway"
    /\ io.last = "data" /\ io.kept = MAX_REMAINDER - 1
    /\ Len(Unconsumed) = MAX_REMAINDER - 1 + BUFFER_SIZE

\* The stream opens with a binary field of an oversized declared length
Oversized == given.kind = "oversized"
\* That field's name, newline and length prefix, and its declared length
OversizedPrefix == Take(given.stream, 10)
DeclaredLength == le_u64(Drop(OversizedPrefix, 2)).out

\* C14 as claimed: once the length prefix of an oversized binary field is
\* buffered, the call never returns normally, whatever the source supplies
\* after the prefix; a panic is the runaway one; and the buffer never holds as
\* many payload bytes as declared.
C14_OversizedAlwaysRunaway ==
    (Oversized /\ IsPrefix(OversizedPrefix, Unconsumed)) =>
        /\ ~(pc = "idle" /\ ret.tag = "None")
        /\ pc = "panic" => ret.tag = "Runaway"
        /\ Len(Unconsumed) - Len(OversizedPrefix) < DeclaredLength

\* C14: an oversized binary field is never decoded and nothing is yielded: the
\* parse answers need-more-input until either the buffer reaches the ceiling,
\* and the call panics with runaway growth, or a read is zero-length, and the
\* call returns None with what was buffered, below the ceiling, still buffered.
\* No other outcome exists.  The buffer holds at most the ceiling less one plus
\* BUFFER_SIZE bytes, whatever the declared length.
C14_OversizedNeverDecoded ==
    /\ [](Oversized =>
            /\ result = <<>> /\ yielded = <<>>
            /\ pc = "panic" => (ret.tag = "Runaway" /\ Len(remainder) >= MAX_REMAINDER)
            /\ (pc = "idle" /\ ret.tag = "None") => (io.last = "eof" /\ Len(remainder) < MAX_REMAINDER)
            /\ pc = "idle" => ret.tag \in {"-", "None"}
            /\ Len(remainder) <= MAX_REMAINDER - 1 + BUFFER_SIZE)
    /\ [][(Oversized /\ pc = "loop" /\ Len(remainder) < MAX_REMAINDER)
            => (pc' = "more" /\ remainder' = remainder /\ remainder_read' = remainder_read)]_vars

\* The source ended after five payload bytes of the oversized field: the call
\* returned None
C14_Witness ==
    /\ Oversized /\ pc = "idle" /\ ret.tag = "None" /\ io.last = "eof"
    /\ Len(Unconsumed) = Len(OversizedPrefix) + 5
    /\ DeclaredLength = MAX_REMAINDER + 1

\* u opens with '=': a field with an empty name
EmptyName(u) == u # <<>> /\ u[1] = EQUALS
\* u opens with a name, a newline, a length n and n payload bytes, and the byte
\* after them is not a newline
UnterminatedPayload(u) ==
    \E k \in 2..Len(u) :
        /\ \A i \in 1..(k - 1) : u[i] \notin {EQUALS, NEWLINE}
        /\ u[k] = NEWLINE
        /\ Len(u) >= k + 8
        /\ LET n == le_u64(SubSeq(u, k + 1, k + 8)).out
           IN  n <= Len(u) - k - 9 /\ u[k + 8 + n + 1] # NEWLINE

\* C15: when the unconsumed bytes at the head of the loop open with an empty
\* name, or with a binary field whose payload of the declared length is not
\* followed by a newline, the call panics with a parser error: it does not ask
\* for more input, reads nothing, and yields nothing, the fields of the record
\* in progress are lost with it.  Only the records that precede the violation
\* are ever yielded, and the stream never ends normally.
C15_StructuralViolationFatal ==
    /\ [][(pc = "loop" /\ Len(remainder) < MAX_REMAINDER
             /\ (EmptyName(Unconsumed) \/ UnterminatedPayload(Unconsumed)))
            => (pc' = "panic" /\ ret'.tag = "Parser" /\ yielded' = yielded
                 /\ reader' = reader /\ remainder' = remainder /\ io' = io)]_vars
    /\ [](given.kind = "malformed" =>
            /\ IsPrefix(yielded, given.recs)
            /\ ~Exhausted
            /\ pc = "panic" => ret.tag = "Parser")

\* The call panicked on an unterminated payload with a field of the record in
\* progress decoded before it; nothing was yielded
C15_Witness ==
    /\ given.kind = "malformed" /\ pc = "panic" /\ ret.tag = "Parser"
    /\ UnterminatedPayload(Unconsumed)
    /\ remainder_read > 0 /\ given.recs = <<>> /\ yielded = <<>>

\* The next read fails
NextReadFails == reader # <<>> /\ Head(reader).kind = "err"

\* C16: a call in which a read failed ends with that read (no further read is
\* attempted in the call), and what it returns to the caller is not what a
\* normal end of the stream returns (None).
C16_ReadFailureSurfaced ==
    /\ [][(NextReadFails /\ reader' # reader) => (pc' = "idle" /\ io'.last = "err")]_vars
    /\ []((pc = "idle" /\ io.last = "err") => ret.tag # "None")

\* C17: field, the accessors message and systemd_unit, and should_filter under a
\* unit criterion never panic: whatever bytes the record's values hold, also a
\* binary value that is not UTF-8, the lookup returns a text or absent.
C17_LookupNeverFails ==
    (out.done /\ call \in LookupCalls \cup UnitFilterCalls) => ~out.r.panic

\* C18: date_time never panics: for every text of the timestamp field, a
\* numeral of any sign or no numeral at all, it returns a timestamp or absent.
C18_DateTimeNeverAborts ==
    (out.done /\ call \in DateTimeCalls) => ~out.r.panic

\* The message without its fields named key
Without(msg, key) ==
    LET Other(p) == p[1] # key
    IN  SelectSeq(msg, Other)

\* C19 as claimed: a _SOURCE_REALTIME_TIMESTAMP that is no integer counts as
\* absent: the timestamp is that of the same record without the field.
C19_UnparseableSourceFallsBack ==
    (out.done /\ call \in DateTimeCalls
       /\ call.about.source.some /\ ~call.about.source.v.n.some)
        => out.r = date_time(Without(call.arg.msg, KEY_SOURCE_REALTIME_TIMESTAMP))

\* C19: a _SOURCE_REALTIME_TIMESTAMP that is present decides alone, wherever it
\* stands in the record: the timestamp is the one its text gives, and absent when
\* the text is no integer, whatever __REALTIME_TIMESTAMP holds.  Only a record
\* without _SOURCE_REALTIME_TIMESTAMP takes its timestamp from
\* __REALTIME_TIMESTAMP, and has none when that text is no integer or missing.
C19_SourceDecidesAlone ==
    (out.done /\ call \in DateTimeCalls) =>
        LET c == call.about.source
            r == call.about.realtime
        IN  /\ c.some => out.r = date_time(<< Pair(KEY_SOURCE_REALTIME_TIMESTAMP, c.v.text) >>)
            /\ (c.some /\ ~c.v.n.some) => out.r = Absent
            /\ (~c.some /\ r.some) => out.r = date_time(<< Pair(KEY_REALTIME_TIMESTAMP, r.v.text) >>)
            /\ (~c.some /\ r.some /\ ~r.v.n.some) => out.r = Absent
            /\ (~c.some /\ ~r.some) => out.r = Absent

\* _SOURCE_REALTIME_TIMESTAMP was "z" and __REALTIME_TIMESTAMP 1500000: no
\* timestamp, although the record without the former has one
C19_Witness ==
    /\ out.done /\ call \in DateTimeCalls
    /\ call.about.source = Some(NoNumeral(<<122>>))
    /\ call.about.realtime = Some(Numeral(1500000))
    /\ out.r = Absent
    /\ date_time(Without(call.arg.msg, KEY_SOURCE_REALTIME_TIMESTAMP)).some

\* C20: a timestamp field holding the integer m >= 0 gives the instant m
\* microseconds after the epoch: m div 1,000,000 seconds and (m mod 1,000,000)
\* microseconds.
C20_MicrosecondInstant ==
    (out.done /\ call \in DateTimeCalls) =>
        LET c == IF call.about.source.some THEN call.about.source ELSE call.about.realtime
        IN  (c.some /\ c.v.n.some /\ c.v.n.v >= 0) => out.r = Found(InstantOfMicros(c.v.n.v))

\* The value of the first field of msg named key, as bytes
FirstValue(msg, key) ==
    LET at == {i \in 1..Len(msg) : msg[i][1] = key}
    IN  IF at = {} THEN None ELSE Some(msg[CHOOSE i \in at : \A j \in at : i <= j][2])

\* C21: message() returns the value of MESSAGE when the field is present and not
\* empty; the value of SYSLOG_RAW, or absent when there is none, when MESSAGE is
\* present and empty; and absent when there is no MESSAGE, whatever SYSLOG_RAW
\* holds.  (For values that are text; on a value that is not UTF-8 the lookup
\* that meets it panics, see C17.)
C21_MessageFallback ==
    (out.done /\ call \in MessageCalls) =>
        LET m == FirstValue(call.arg.msg, KEY_MESSAGE)
            raw == FirstValue(call.arg.msg, KEY_SYSLOG_RAW)
        IN  /\ ~m.some => out.r = Absent
            /\ (m.some /\ m.v # <<>> /\ IsUtf8(m.v)) => out.r = Found(m.v)
            /\ (m.some /\ m.v = <<>> /\ ~raw.some) => out.r = Absent
            /\ (m.some /\ m.v = <<>> /\ raw.some /\ IsUtf8(raw.v)) => out.r = Found(raw.v)
            /\ out.r.panic <=> \/ m.some /\ ~IsUtf8(m.v)
                               \/ m.some /\ m.v = <<>> /\ raw.some /\ ~IsUtf8(raw.v)

\* An empty MESSAGE was answered with the value of SYSLOG_RAW
C21_Witness ==
    /\ out.done /\ call \in MessageCalls
    /\ FirstValue(call.arg.msg, KEY_MESSAGE) = Some(<<>>)
    /\ FirstValue(call.arg.msg, KEY_SYSLOG_RAW) = Some(<<121>>)
    /\ out.r = Found(<<121>>)

\* The configured maximum record count of the invocation
Limit == call.arg.filter.lines

\* C22: with a maximum record count N configured (N >= 0), at most N records
\* are written over all files, and once N records are written main calls next()
\* no more and opens no further file.
C22_LineLimit ==
    /\ []((call.fn = "main" /\ Limit.some) => Len(main.stdout) <= Limit.v)
    /\ [][(call.fn = "main" /\ Limit.some /\ Len(main.stdout) >= Limit.v)
            => (main'.pulls = main.pulls /\ main'.files = main.files)]_vars

\* C23: open_file on a file of any length, also 0 or 1 bytes, returns a reader
\* that stands at byte 0 of the file: a decompressing one exactly when the file
\* begins with 0x1F 0x8B, otherwise a raw one that delivers the file from its
\* first byte on.
C23_OpenFileDetects ==
    (out.done /\ call \in OpenFileCalls) =>
        LET b == call.arg.bytes
            magic == Len(b) >= 2 /\ b[1] = 31 /\ b[2] = 139
        IN  /\ out.r.ok
            /\ out.r.pos = 0
            /\ out.r.gz <=> magic
            /\ ~magic => out.r.self.reader = <<Data(b)>>

\* b is the text form or the binary form of the field f = <<name, value>>
EncodesField(b, f) == b \in {EncodeField(Text(f[1], f[2])), EncodeField(Binary(f[1], f[2]))}

\* C24: the consumed offset stays within the buffer, 0 <= remainder_read <=
\* len(remainder).  A step of the loop leaves the buffer as it is and never
\* moves the offset back; when it decodes a field, the bytes between the old
\* offset and the new one are exactly that field's encoding, and when it
\* completes a record they are the one newline: the parse started at
\* remainder_read, and the new offset is len(remainder) less the unparsed rest.
\* A step that asks for more input or finds the input broken leaves the offset.
C24_OffsetWithinBuffer ==
    /\ [](0 <= remainder_read /\ remainder_read <= Len(remainder))
    /\ [][pc = "loop" =>
            LET consumed == SubSeq(remainder, remainder_read + 1, remainder_read')
                completed == pc' = "idle" \/ (pc' = "loop" /\ result' = <<>>)
                                \/ (pc' = "panic" /\ ret'.tag = "Utf8")
            IN  /\ remainder' = remainder
                /\ remainder_read' >= remainder_read
                /\ remainder_read' <= Len(remainder)
                /\ (pc' = "loop" /\ result' # <<>>) =>
                      /\ result' = Append(result, result'[Len(result')])
                      /\ EncodesField(consumed, result'[Len(result')])
                      /\ remainder_read'
                            = Len(remainder) - Len(parse_end_of_msg(Unconsumed).rest)
                /\ completed => consumed = <<NEWLINE>>
                /\ (pc' = "more" \/ (pc' = "panic" /\ ret'.tag # "Utf8"))
                      => remainder_read' = remainder_read]_vars

\* Inside the buffer, with a field decoded from the middle of it: the second
\* field of a record, decoded from offset 4
C24_Witness ==
    /\ pc = "loop" /\ Len(result) = 2
    /\ remainder_read > 4 /\ remainder_read < Len(remainder)
    /\ SubSeq(remainder, 5, remainder_read) = EncodeField(PlainFields.an)

\* The bytes the source has still to deliver
RECURSIVE Undelivered(_)
Undelivered(rd) == IF rd = <<>> THEN <<>> ELSE Head(rd).bytes \o Undelivered(Tail(rd))

\* C25: a refill (the read of `if more`, and the read at the entry of next()
\* on an empty buffer) makes the buffer the unconsumed bytes followed by the
\* chunk the source delivered, at most one read buffer of the bytes it had
\* still to deliver, and sets the offset to 0; the read itself leaves the
\* fields of the record in progress as they are, and they are still the
\* record in progress when the loop goes on.  No other step changes the
\* buffer.
C25_RefillCompaction ==
    [][LET reads == pc = "more" \/ (pc = "idle" /\ remainder = <<>>)
           l == Len(Undelivered(reader)) - Len(Undelivered(reader'))
           chunk == Take(Undelivered(reader), l)
       IN  /\ reads =>
                /\ l >= 0 /\ l <= BUFFER_SIZE
                /\ remainder' = Unconsumed \o chunk
                /\ remainder_read' = 0
                /\ Len(remainder') = Len(remainder) - remainder_read + l
                /\ read(Self).self.result = result
                /\ (pc = "more" /\ pc' = "loop") => result' = result
           /\ ~reads => remainder' = remainder]_vars

\* After a refill inside a record: consumed bytes were dropped, unconsumed
\* bytes were kept in front of the new ones, and the fields decoded before the
\* refill are still there
C25_Witness ==
    /\ pc = "loop" /\ io.last = "data" /\ io.mid
    /\ remainder_read = 0 /\ io.kept > 0 /\ Len(remainder) > io.kept
    /\ result # <<>>
    /\ Len(remainder) < Len(given.stream) - 4

\* C26 as claimed: on a binary value cut inside its length or its payload the
\* count reported with Incomplete is the number of bytes still missing, 8 less
\* the length bytes present, or the declared length less the payload bytes
\* present.
C26_NeededIsMissing ==
    (out.done /\ call \in TruncatedValueCalls) =>
        /\ out.r.tag = "Incomplete"
        /\ out.r.needed = IF call.about.length_bytes < 8 THEN 8 - call.about.length_bytes
                          ELSE call.about.declared - call.about.payload_bytes

\* C26: on a binary value cut inside its length or its payload parse_value
\* answers Incomplete with the size of the element it was reading: 8 when
\* fewer than 8 length bytes are there, however many; the declared length n
\* when fewer than n payload bytes are there, however many.  The count is never
\* below the bytes still missing and equals them only when no byte of the
\* element is present.
C26_NeededIsElementSize ==
    (out.done /\ call \in TruncatedValueCalls) =>
        LET a == call.about
            inLength == a.length_bytes < 8
            present == IF inLength THEN a.length_bytes ELSE a.payload_bytes
            size == IF inLength THEN 8 ELSE a.declared
        IN  /\ out.r.tag = "Incomplete"
            /\ out.r.needed = size
            /\ out.r.needed >= size - present
            /\ out.r.needed = size - present <=> present = 0

\* The case of parse_value_test: one byte of a payload of seven is there, and
\* seven are reported
C26_Witness ==
    /\ out.done /\ call \in TruncatedValueCalls
    /\ call.about.declared = 7 /\ call.about.payload_bytes = 1
    /\ out.r.tag = "Incomplete" /\ out.r.needed = 7

\* C28: the record in progress outlives the call of next(): when a zero-length
\* read inside the stream has ended a call and the source delivers the rest
\* afterwards, every record yielded still is the whole record of the stream,
\* with every field between the terminator before it and its own.
C28_RecordKeptAcrossCalls ==
    (given.kind = "gap" /\ given.filter = NoFilter) =>
        \A i \in 1..Len(yielded) :
            /\ i <= Len(given.recs)
            /\ yielded[i] = given.recs[i]

\* The last call returned / the process died / a call is running
ReturnedNone == pc = "idle" /\ ret.tag = "None"
Died == pc = "panic"
Running == pc \in {"loop", "more"}

\* C27: on a finite stream that arrives as non-empty chunks followed by
\* zero-length reads, a turn of the loop consumes at least one byte or goes to
\* a refill (or ends the call); every call of next() that runs comes to an end,
\* with a record, with None or with a panic; unless the process dies in a panic
\* some call returns None; and once a call has returned None, no later call
\* yields a record or panics: each runs to its end and returns None again.
C27_Termination ==
    /\ [][pc = "loop" =>
            \/ remainder_read' > remainder_read
            \/ pc' \in {"more", "panic"}]_vars
    /\ Running ~> (pc = "idle" \/ Died)
    /\ []<>(ReturnedNone \/ Died)
    /\ [][ret.tag = "None" => (ret'.tag = "None" /\ ~Died' /\ yielded' = yielded)]_vars

\* A stream that came in two non-empty chunks: both its records were yielded,
\* the source then read as empty, and the call returned None
C27_Witness ==
    /\ ChunksThenEmpty(given.delivery) /\ Len(given.delivery) = 2
    /\ given.delivery[2].bytes # <<>>
    /\ ReturnedNone /\ io.last = "eof" /\ reader = <<>>
    /\ Len(yielded) = 2 /\ yielded = given.recs
====
